---- MODULE Spec2Model ----
(***************************************************************************)
(* Model of the gecco pipeline engine (src/gecco/gecco.py): the module     *)
(* registry and its dependency-ordered iteration, the producer that fills  *)
(* the input queue (DataThread.__init__), the worker pool                  *)
(* (ProcessorThread.run), the consumer that applies results to the         *)
(* document (DataThread.run) and the controller (Corrector.run).           *)
(***************************************************************************)
EXTENDS Integers, Sequences, FiniteSets, TLC

(***************************************************************************)
(* Bounds of the model.                                                    *)
(***************************************************************************)
NumWords == 2      \* largest number of Word elements of a document
MaxThreads == 2    \* largest value of settings['threads'] explored
MaxServers == 2    \* largest number of servers found for a remote module
NumPorts == 2      \* ports the random choice of startservers ranges over
MaxChildren == 2   \* server processes spawned on this host
MaxCommands == 2   \* command lines invoked after one another
MaxText == 3       \* characters of a suggested text

(***************************************************************************)
(* Program constants.                                                      *)
(***************************************************************************)
RetryFactor == 10  \* "max 10 retries over all servers"
PortMin == 10000   \* random.randint(10000,65000)
PortMax == 65000

ModuleIds == {"A", "B", "C"}
PipelineIds == {"A", "B"}
Words == 1..NumWords
DocId == 0
Elements == {DocId} \cup Words
TypeOf(e) == IF e = DocId THEN "Document" ELSE "Word"
NoModule == "None"
NoUnit == -1
RunOutcomes == {"data", "empty", "none", "raise"}
ServerBehaviours == {"answers", "refuses", "fails"}

VARIABLES
    nwords,         \* the Word elements foliadoc.select(Word) gives, numbered 1..nwords
    modules,        \* Corrector.modules: the registry, ids in declaration order
    depends,        \* module.settings['depends']
    UNIT,           \* module.UNIT
    local,          \* module.local
    submodule,      \* module.submodule
    servers,        \* module.servers: the servers findservers() found, in order
    behaviour,      \* how each server of a module reacts to a module call
    rejected,       \* (module, unit) pairs whose payload UNITFILTER rejects
    prepnone,       \* (module, unit) pairs for which prepareinput returns None
    runs,           \* what module.run gives for the payload of (module, unit)
    outputs,        \* what module.processoutput does for the result of (module, unit)
    threads,        \* settings['threads']
    module_ids,     \* the modules selected for this run (empty: all)
    inputqueue,     \* JoinableQueue of (module_id, unit_id, inputdata)
    unfinished,     \* unfinished-task count of the input queue (put +1, task_done -1)
    outputqueue,    \* JoinableQueue of (module_id, unit_id, outputdata, inputdata):
                    \* the records that have reached its pipe
    feeder,         \* per worker, the records it has put on the output queue that
                    \* its process has not yet written to the pipe
    infoqueue,      \* module ids of applied queries, then None
    timequeue,      \* number of (module_id, duration) records per module
    waitforprocessors, \* the Lock the consumer waits for: TRUE while held
    pcCorrector,    \* position of Corrector.run
    pcData,         \* position of DataThread.run (the consumer process)
    pcProc,         \* position of each ProcessorThread.run
    held,           \* the input item a worker has dequeued and not released
    seqnr,          \* ProcessorThread.seqnr, per worker and module (-1: unset)
    clients,        \* ProcessorThread.clients, per worker: set of (module, index)
    foliadoc,       \* Corrections in the document: (module, unit, query index)
    declared,       \* modules whose correction set the document declares
    saved,          \* the document as written ({} of nothing while unwritten)
    written,        \* number of times the document was saved
    initcalls,      \* number of init(document) calls per module
    finishcalls,    \* number of finish(document) calls per module
    log,            \* log lines written so far (as a set of tagged records)
    putcount,       \* results put on the output queue so far, per (module, unit)
    attempts,       \* servers tried by each worker in its last remote dispatch
    ranwith,        \* per worker, what module.run was called with in its last dispatch
    processed,      \* modules for which a process_output call has completed
    configfile,     \* the module specifications of the configuration file, in order
    rundir,         \* <root>/run/: the PID files, as records of file name and content
    children,       \* the server processes spawned on this host, by process id
    foreign,        \* the (host, port) endpoints on other hosts that answer a probe
    found,          \* module.servers after the last findservers: (module, host, port)
    signalled,      \* the process ids that were sent signal 15
    spawned,        \* the (module, host, port) the last startservers spawned
    before,         \* the run directory as the last startservers found it
    nextpid,        \* the process id the next spawned child gets
    lastcmd,        \* the last command that completed
    suggestion,     \* the text a module's processoutput suggests for an element
    query           \* the query string built for it

config == <<nwords, modules, depends, UNIT, local, submodule, servers, behaviour,
            rejected, prepnone, runs, outputs, threads, module_ids>>
queues == <<inputqueue, unfinished, outputqueue, feeder, infoqueue, timequeue>>
procs == <<pcProc, held, seqnr, clients, attempts, ranwith>>
document == <<foliadoc, declared, saved, written, initcalls, finishcalls, processed>>
host == <<configfile, rundir, children, foreign, found, signalled, spawned, before,
          nextpid, lastcmd>>
editing == <<suggestion, query>>
vars == <<config, editing, queues, procs, document, waitforprocessors, pcCorrector, pcData,
          log, putcount, host>>

Workers == 1..MaxThreads
Range(s) == {s[i] : i \in 1..Len(s)}
Perms(S) == {s \in [1..Cardinality(S) -> S] : \A i, j \in 1..Cardinality(S) : i # j => s[i] # s[j]}

(***************************************************************************)
(* Corrector.__iter__: iterate the registry "in proper dependency order".  *)
(* One pass scans ALL registered modules (self.modules.values()), postpones*)
(* those with a dependency not yet done and yields the others.  The        *)
(* operators take the registry and depends as parameters so that they can  *)
(* be evaluated on configurations the pipeline never runs with.            *)
(***************************************************************************)
RECURSIVE ScanPass(_, _, _, _, _, _)
ScanPass(reg, deps, i, done, postpone, out) ==
    IF i > Len(reg) THEN [done |-> done, postpone |-> postpone, out |-> out]
    ELSE LET m == reg[i]
             wait == \E dep \in deps[m] : dep \notin done
         IN IF wait
            THEN ScanPass(reg, deps, i + 1, done, Append(postpone, m), out)
            ELSE ScanPass(reg, deps, i + 1, done \cup {m}, postpone, Append(out, m))

\* first: `modules` is still the values view, which never equals a list
RECURSIVE IterPasses(_, _, _, _, _, _)
IterPasses(reg, deps, first, pending, done, out) ==
    LET r == ScanPass(reg, deps, 1, done, <<>>, <<>>)
    IN IF ~first /\ pending = r.postpone
       THEN [raised |-> TRUE, out |-> out \o r.out]
       ELSE IF r.postpone = <<>>
            THEN [raised |-> FALSE, out |-> out \o r.out]
            ELSE IterPasses(reg, deps, FALSE, r.postpone, r.done, out \o r.out)

\* an iteration in the order of declaration
IterateDeclared(reg, deps) == [raised |-> FALSE, out |-> reg]

Iterate(reg, deps) ==
    IF reg = <<>> THEN [raised |-> FALSE, out |-> <<>>]
    ELSE IterPasses(reg, deps, TRUE, <<>>, {}, <<>>)

\* the sequence of modules one `for module in self.corrector` visits
IterModules == Iterate(modules, depends).out

(***************************************************************************)
(* The producer: DataThread.__init__, run by the controller process        *)
(* before any worker or the consumer process is started.                   *)
(***************************************************************************)
Selected(m) == module_ids = {} \/ m \in module_ids

\* Corrector.units: the UNIT of every registered module
units == {UNIT[m] : m \in Range(IterModules)}

\* Module.prepareinput is the module's own; its payload is derived from the unit
prepareinput(m, e) == IF <<m, e>> \in prepnone THEN <<>> ELSE <<"input", e>>

Item(m, e) == [module_id |-> m, unit_id |-> e, inputdata |-> prepareinput(m, e)]
EndOfInput == [module_id |-> NoModule, unit_id |-> NoUnit, inputdata |-> <<>>]

\* for module in self.corrector: ... inputqueue.put(...) for one element
RECURSIVE QueueElement(_, _, _)
QueueElement(e, mods, i) ==
    IF i > Len(mods) THEN <<>>
    ELSE LET m == mods[i]
             put == /\ Selected(m)
                    /\ UNIT[m] = TypeOf(e)
                    /\ prepareinput(m, e) # <<>>
         IN (IF put THEN <<Item(m, e)>> ELSE <<>>) \o QueueElement(e, mods, i + 1)

\* for element in self.foliadoc.select(unit): elements in document order
RECURSIVE QueueWords(_)
QueueWords(w) ==
    IF w > nwords THEN <<>>
    ELSE QueueElement(w, IterModules, 1) \o QueueWords(w + 1)

RECURSIVE Sentinels(_)
Sentinels(n) == IF n = 0 THEN <<>> ELSE <<EndOfInput>> \o Sentinels(n - 1)

\* number of sentinels the producer puts: one for each thread
SentinelCount == threads

ProducerQueue ==
    (IF "Document" \in units THEN QueueElement(DocId, IterModules, 1) ELSE <<>>)
    \o (IF "Word" \in units THEN QueueWords(1) ELSE <<>>)
    \o Sentinels(SentinelCount)

Count(s, x) == Cardinality({i \in 1..Len(s) : s[i] = x})

\* init called for every module the iteration yields, selected or not
InitCallsUnselected == [m \in ModuleIds |-> Count(IterModules, m)]

\* module.init(foliadoc) for every selected module the iteration yields
InitCalls == [m \in ModuleIds |-> IF Selected(m) THEN Count(IterModules, m) ELSE 0]

CreateDataThread ==
    /\ pcCorrector = "create"
    /\ initcalls' = InitCalls
    /\ declared' = {m \in ModuleIds : InitCalls[m] > 0}
    /\ inputqueue' = ProducerQueue
    /\ unfinished' = Len(ProducerQueue)
    /\ log' = log \cup {<<"Input ready", NoModule, NoUnit>>}
    /\ pcCorrector' = "startdata"
    /\ UNCHANGED <<config, editing, host, outputqueue, feeder, infoqueue, timequeue, procs, foliadoc, saved,
                   written, finishcalls, processed, waitforprocessors, pcData, putcount>>

(***************************************************************************)
(* The workers: ProcessorThread.run                                        *)
(***************************************************************************)
Processors == 1..threads
NoItem == [module_id |-> NoModule, unit_id |-> NoUnit, inputdata |-> <<>>]
Result(item, out) == [module_id |-> item.module_id, unit_id |-> item.unit_id,
                      outputdata |-> out, inputdata |-> item.inputdata]
EndOfOutput == [module_id |-> NoModule, unit_id |-> NoUnit,
                outputdata |-> "none", inputdata |-> <<>>]

\* module.UNITFILTER(inputdata), where a filter is set
UNITFILTER(item) == <<item.module_id, item.unit_id>> \notin rejected

\* inputqueue.get(True, timeout), task_done(), then the checks that lead to a dispatch
ProcGet(w) ==
    /\ pcProc[w] = "get"
    /\ IF inputqueue = <<>>
       THEN \* queue.Empty after the timeout: the worker stops
            /\ pcProc' = [pcProc EXCEPT ![w] = "stopped"]
            /\ log' = log \cup {<<"inputqueue timed out", NoModule, w>>}
            /\ UNCHANGED <<inputqueue, unfinished, held>>
       ELSE LET item == Head(inputqueue)
            IN /\ inputqueue' = Tail(inputqueue)
               /\ unfinished' = unfinished - 1
               /\ log' = log
               /\ IF item.module_id = NoModule
                  THEN /\ pcProc' = [pcProc EXCEPT ![w] = "stopped"]
                       /\ held' = held
                  ELSE IF UNITFILTER(item) /\ ~submodule[item.module_id]
                       THEN /\ pcProc' = [pcProc EXCEPT ![w] = "prepare"]
                            /\ held' = [held EXCEPT ![w] = item]
                       ELSE /\ pcProc' = pcProc
                            /\ held' = held
    /\ UNCHANGED <<config, editing, host, outputqueue, feeder, infoqueue, timequeue, seqnr,
                   clients, attempts, ranwith, document, waitforprocessors, pcCorrector,
                   pcData, putcount>>

\* does the Corrector object have the attribute `done` that prepare() reads?
\* Corrector.__init__ sets settings, modules, units and loaded, and nothing else does.
ParentHasDone == FALSE

\* a prepare() that lets every module through
prepareNoBarrier(m) == "ready"

\* Module.prepare: "waits until all dependencies have completed"
prepare(m) ==
    IF depends[m] = {} THEN "ready"
    ELSE IF ~ParentHasDone THEN "AttributeError"
    ELSE IF depends[m] \subseteq processed THEN "ready" ELSE "waiting"

ProcPrepare(w) ==
    /\ pcProc[w] = "prepare"
    /\ prepare(held[w].module_id) # "waiting"
    /\ IF prepare(held[w].module_id) = "ready"
       THEN /\ pcProc' = [pcProc EXCEPT ![w] = "run"]
            /\ log' = log
       ELSE \* the exception leaves run(): the worker process ends
            /\ pcProc' = [pcProc EXCEPT ![w] = "crashed"]
            /\ log' = log \cup {<<"traceback", held[w].module_id, held[w].unit_id>>}
    /\ UNCHANGED <<config, editing, host, queues, held, seqnr, clients, attempts, ranwith, document,
                   waitforprocessors, pcCorrector, pcData, putcount>>

\* a getserver that ignores the sequence number
getserverFirst(m, index) == 1

\* Module.getserver: index % len(self.servers), as a 1-based position
getserver(m, index) == (index % Len(servers[m])) + 1

\* a retry limit of one round over the servers
RetryLimitOneRound(m) == Len(servers[m])

\* a retry limit counted for each server instead of over all servers
RetryLimitPerServer(m) == RetryFactor * Len(servers[m]) * Len(servers[m])

\* the attempts one payload may use before the loop breaks
RetryLimit(m) == RetryFactor * Len(servers[m])

\* a loop that leaves the client of a failed attempt in the map
RECURSIVE RemoteLoopKeep(_, _, _, _, _, _)
RemoteLoopKeep(m, out, startseqnr, seq, cl, tried) ==
    LET idx == (seq % Len(servers[m])) + 1
        server == <<m, idx>>
        answered == behaviour[m][idx] = "answers" /\ out # "raise"
    IN IF seq + 1 >= startseqnr + RetryFactor * Len(servers[m])
       THEN [connected |-> FALSE, seqnr |-> seq + 1, clients |-> cl, tried |-> tried,
             refused |-> FALSE]
       ELSE IF answered
            THEN [connected |-> TRUE, seqnr |-> seq + 1, clients |-> cl \cup {server},
                  tried |-> Append(tried, idx), refused |-> FALSE]
            ELSE LET r == RemoteLoopKeep(m, out, startseqnr, seq + 1, cl \cup {server},
                                         Append(tried, idx))
                 IN [r EXCEPT !.refused = r.refused \/ behaviour[m][idx] = "refuses"]

\* The `while not connected` loop of the remote dispatch.  out is what the module's
\* run gives for this payload on a server that answers; an exception in run on the
\* server closes the connection, and the client's json.loads of the empty answer raises.
RECURSIVE RemoteLoop(_, _, _, _, _, _)
RemoteLoop(m, out, startseqnr, seq, cl, tried) ==
    LET idx == getserver(m, seq)
        server == <<m, idx>>
        answered == behaviour[m][idx] = "answers" /\ out # "raise"
    IN IF seq + 1 >= startseqnr + RetryLimit(m)
       THEN [connected |-> FALSE, seqnr |-> seq + 1, clients |-> cl, tried |-> tried,
             refused |-> FALSE]
       ELSE IF answered
            THEN [connected |-> TRUE, seqnr |-> seq + 1, clients |-> cl \cup {server},
                  tried |-> Append(tried, idx), refused |-> FALSE]
            ELSE LET r == RemoteLoop(m, out, startseqnr, seq + 1, cl \ {server},
                                     Append(tried, idx))
                 IN [r EXCEPT !.refused = r.refused \/ behaviour[m][idx] = "refuses"]

\* the remote branch for one payload, from a sequence number start
RemoteDispatch(m, out, start, cl) ==
    IF servers[m] = <<>>
    THEN \* getserver raises IndexError("No servers")
         [connected |-> FALSE, seqnr |-> start, clients |-> cl, tried |-> <<>>,
          refused |-> FALSE]
    ELSE RemoteLoop(m, out, start, start, cl, <<>>)

\* the first sequence number of a module: random.randint(0, len(module.servers))
StartSeqnrs(w, m) ==
    IF seqnr[w][m] # -1 THEN {seqnr[w][m]} ELSE 0..Len(servers[m])

\* self.outputqueue.put(...): the record is handed to the queue of this process;
\* put returns before the record is in the pipe the consumer reads
PutResult(w, item, out) ==
    /\ feeder' = [feeder EXCEPT ![w] = Append(@, Result(item, out))]
    /\ putcount' = [putcount EXCEPT ![<<item.module_id, item.unit_id>>] = @ + 1]

\* no call of module.run
NoArgument == <<"no call">>

\* the id of a unit as the string value a method receives
IdString(unit_id) == <<"id", unit_id>>

\* json.dumps of a payload: the text of a JSON array of its items
dumps(data) == <<"[">> \o data \o <<"]">>

\* json.loads of the text of a JSON array
loads(text) == SubSeq(text, 2, Len(text) - 1)

\* LineByLineServerHandler.handle: self.server.module.run(json.loads(msg)); the value
\* is the argument run is called with
handle(msg) == loads(msg)

\* def runlocal(self, unit_id, inputdata, **parameters): return self.run(inputdata);
\* the value is the argument run is called with.  ProcessorThread.run calls
\* module.runlocal(inputdata, unit_id, **self.parameters).
runlocal(unit_id, inputdata) == inputdata

\* def runclient(self, client, unit_id, inputdata, **parameters):
\* client.communicate(json.dumps(inputdata)); called as
\* module.runclient(client, unit_id, inputdata, **self.parameters)
runclient(unit_id, inputdata) == handle(dumps(inputdata))

\* a server that ends when a request handler raises: its port refuses connections
handle_errorFatal(state) == "refuses"

\* ThreadedTCPServer.handle_error, called by the server for an exception that left
\* a request handler: it prints the exception and its traceback and returns, and
\* serve_forever goes on; the value is how the server reacts to later connections
handle_error(state) == state

ProcRun(w) ==
    /\ pcProc[w] = "run"
    /\ LET item == held[w]
           m == item.module_id
           out == runs[<<m, item.unit_id>>]
       IN IF local[m]
          THEN \* outputdata = module.runlocal(...); put if not None
               /\ IF out = "raise"
                  THEN /\ pcProc' = [pcProc EXCEPT ![w] = "crashed"]
                       /\ log' = log \cup {<<"traceback", m, item.unit_id>>}
                       /\ UNCHANGED <<held, feeder, putcount>>
                  ELSE /\ pcProc' = [pcProc EXCEPT ![w] = "get"]
                       /\ held' = [held EXCEPT ![w] = NoItem]
                       /\ log' = log
                       /\ IF out = "none"
                          THEN UNCHANGED <<feeder, putcount>>
                          ELSE PutResult(w, item, out)
               /\ ranwith' = [ranwith EXCEPT ![w] = runlocal(item.inputdata, IdString(item.unit_id))]
               /\ UNCHANGED <<seqnr, clients, attempts, timequeue, behaviour>>
          ELSE \E start \in StartSeqnrs(w, m) :
               LET r == RemoteDispatch(m, out, start, clients[w])
               IN /\ seqnr' = [seqnr EXCEPT ![w][m] = r.seqnr]
                  /\ clients' = [clients EXCEPT ![w] = r.clients]
                  /\ attempts' = [attempts EXCEPT ![w] = r.tried]
                  /\ ranwith' = [ranwith EXCEPT ![w] =
                                    IF \E i \in Range(r.tried) : behaviour[m][i] = "answers"
                                    THEN runclient(IdString(item.unit_id), item.inputdata)
                                    ELSE NoArgument]
                  /\ IF r.connected /\ out # "none"
                     THEN PutResult(w, item, out)
                     ELSE UNCHANGED <<feeder, putcount>>
                  /\ log' = log
                       \cup (IF r.refused THEN {<<"refused connection", m, item.unit_id>>}
                             ELSE {})
                       \cup (IF servers[m] = <<>>
                             THEN {<<"No servers started", m, item.unit_id>>} ELSE {})
                       \cup (IF ~r.connected
                             THEN {<<"Unable to connect", m, item.unit_id>>} ELSE {})
                  /\ behaviour' = [behaviour EXCEPT ![m] =
                                      [i \in DOMAIN behaviour[m] |->
                                          IF /\ i \in Range(r.tried)
                                             /\ behaviour[m][i] = "answers" /\ out = "raise"
                                          THEN handle_error(behaviour[m][i])
                                          ELSE behaviour[m][i]]]
                  /\ timequeue' = [timequeue EXCEPT ![m] = @ + 1]
                  /\ pcProc' = [pcProc EXCEPT ![w] = "get"]
                  /\ held' = [held EXCEPT ![w] = NoItem]
    /\ UNCHANGED <<nwords, modules, depends, UNIT, local, submodule, servers, rejected,
                   prepnone, runs, outputs, threads, module_ids, editing, host, inputqueue,
                   unfinished, outputqueue, infoqueue, document, waitforprocessors,
                   pcCorrector, pcData>>

\* The output queue is a multiprocessing queue: each process that puts has its own
\* buffer, which it writes to the shared pipe in the background.  Records of one
\* process arrive in the order it put them; records of different processes arrive
\* in the order their processes write them.
ProcFeed(w) ==
    /\ feeder[w] # <<>>
    /\ outputqueue' = Append(outputqueue, Head(feeder[w]))
    /\ feeder' = [feeder EXCEPT ![w] = Tail(@)]
    /\ UNCHANGED <<config, editing, host, inputqueue, unfinished, infoqueue, timequeue, procs, document,
                   waitforprocessors, pcCorrector, pcData, log, putcount>>

(***************************************************************************)
(* The consumer: DataThread.run                                            *)
(***************************************************************************)
QueryKinds == {"ok", "SyntaxError", "QueryError", "Exception"}

\* What module.processoutput may do for a record: raise, return None, or return
\* queries; each query is named by what the interpreter does with it.
ProcessOutputs ==
    {[kind |-> "raise", queries |-> <<>>], [kind |-> "none", queries |-> <<>>]}
    \cup {[kind |-> "queries", queries |-> q] :
            q \in {<<"ok">>, <<"ok", "ok">>, <<"SyntaxError", "ok">>,
                   <<"ok", "QueryError">>, <<"Exception">>}}

\* self.waitforprocessors.acquire(True, timeout): returns when the lock is free,
\* and after the timeout without it
DataWait ==
    /\ pcData = "wait"
    /\ pcData' = "loop"
    /\ waitforprocessors' = TRUE
    /\ UNCHANGED <<config, editing, host, queues, procs, document, pcCorrector, log, putcount>>

\* a loop over the queries that ends at the first query that fails
ApplyQueriesUntilError(m, u, queries) ==
    {<<m, u, i>> : i \in {j \in 1..Len(queries) : \A h \in 1..j : queries[h] = "ok"}}

\* q(self.foliadoc) for the queries of one record, in order
ApplyQueries(m, u, queries) ==
    {<<m, u, i>> : i \in {j \in 1..Len(queries) : queries[j] = "ok"}}

RECURSIVE InfoPuts(_, _)
InfoPuts(m, queries) ==
    IF queries = <<>> THEN <<>>
    ELSE (IF Head(queries) = "ok" THEN <<m>> ELSE <<>>) \o InfoPuts(m, Tail(queries))

QueryLog(m, u, queries) ==
    {<<queries[i], m, u>> : i \in {j \in 1..Len(queries) : queries[j] # "ok"}}

\* `elif outputdata:` the record is handed to processoutput when its output is truthy
Truthy(outputdata) == outputdata = "data"

\* one iteration of the loop on a record of the output queue
DataLoop ==
    /\ pcData = "loop"
    /\ outputqueue # <<>>
    /\ LET rec == Head(outputqueue)
           m == rec.module_id
           u == rec.unit_id
       IN /\ outputqueue' = Tail(outputqueue)
          /\ IF rec = EndOfOutput
             THEN /\ pcData' = "finish"
                  /\ UNCHANGED <<foliadoc, infoqueue, log, processed>>
             ELSE IF Truthy(rec.outputdata)
                  THEN LET po == outputs[<<m, u>>]
                       IN
                       /\ pcData' = "loop"
                       /\ IF po.kind = "raise"
                          THEN /\ log' = log \cup {<<"Exception processing output", m, u>>}
                               /\ UNCHANGED <<foliadoc, infoqueue, processed>>
                          ELSE /\ foliadoc' = foliadoc \cup ApplyQueries(m, u, po.queries)
                               /\ infoqueue' = infoqueue \o InfoPuts(m, po.queries)
                               /\ log' = log \cup QueryLog(m, u, po.queries)
                               /\ processed' = processed \cup {m}
                  ELSE /\ pcData' = "loop"
                       /\ UNCHANGED <<foliadoc, infoqueue, log, processed>>
    /\ UNCHANGED <<config, editing, host, inputqueue, unfinished, feeder, timequeue, procs, declared,
                   saved, written, initcalls, finishcalls, waitforprocessors,
                   pcCorrector, putcount>>

\* outputqueue.get(True, timeout) raises queue.Empty, which nothing catches
DataTimeout ==
    /\ pcData = "loop"
    /\ outputqueue = <<>>
    /\ pcData' = "crashed"
    /\ log' = log \cup {<<"traceback", NoModule, NoUnit>>}
    /\ UNCHANGED <<config, editing, host, queues, procs, document, waitforprocessors, pcCorrector,
                   putcount>>

\* infoqueue.put(None), then module.finish(foliadoc) for every selected module
DataFinish ==
    /\ pcData = "finish"
    /\ infoqueue' = Append(infoqueue, NoModule)
    /\ finishcalls' = [m \in ModuleIds |->
                         finishcalls[m] + (IF Selected(m) THEN Count(IterModules, m) ELSE 0)]
    /\ pcData' = "save"
    /\ UNCHANGED <<config, editing, host, inputqueue, unfinished, outputqueue, feeder, timequeue,
                   procs, foliadoc, declared, saved, written, initcalls, processed,
                   waitforprocessors, pcCorrector, log, putcount>>

\* self.foliadoc.save(...), or the dump to standard output
DataSave ==
    /\ pcData = "save"
    /\ saved' = foliadoc
    /\ written' = written + 1
    /\ pcData' = "exited"
    /\ UNCHANGED <<config, editing, host, queues, procs, foliadoc, declared, initcalls, finishcalls,
                   processed, waitforprocessors, pcCorrector, log, putcount>>

(***************************************************************************)
(* The controller: Corrector.run                                           *)
(***************************************************************************)
\* datathread.start()
StartDataThread ==
    /\ pcCorrector = "startdata"
    /\ pcData' = "wait"
    /\ pcCorrector' = "startthreads"
    /\ UNCHANGED <<config, editing, host, queues, procs, document, waitforprocessors, log, putcount>>

\* for thread in threads: thread.start()
StartThreads ==
    /\ pcCorrector = "startthreads"
    /\ pcProc' = [w \in Workers |-> IF w \in Processors THEN "get" ELSE pcProc[w]]
    /\ pcCorrector' = "release"
    /\ UNCHANGED <<config, editing, host, queues, held, seqnr, clients, attempts, ranwith, document,
                   waitforprocessors, pcData, log, putcount>>

\* waitforprocessors.release()
ReleaseLock ==
    /\ pcCorrector = "release"
    /\ waitforprocessors' = FALSE
    /\ pcCorrector' = "join"
    /\ UNCHANGED <<config, editing, host, queues, procs, document, pcData, log, putcount>>

\* a join that does not wait for the input queue
JoinReturnsAtOnce == TRUE

\* inputqueue.join() returns when every item put has been marked task_done
JoinReturns == unfinished = 0

\* inputqueue.join(); outputqueue.put((None,None,None,None))
JoinInput ==
    /\ pcCorrector = "join"
    /\ JoinReturns
    /\ outputqueue' = Append(outputqueue, EndOfOutput)
    /\ log' = log \cup {<<"Input queue processed", NoModule, NoUnit>>}
    /\ pcCorrector' = "joindata"
    /\ UNCHANGED <<config, editing, host, inputqueue, unfinished, feeder, infoqueue, timequeue, procs,
                   document, waitforprocessors, pcData, putcount>>

\* datathread.join(), then the info and time queues are read up to their None;
\* infoqueue.get(True, timeout) raises queue.Empty when the consumer put no None
JoinData ==
    /\ pcCorrector = "joindata"
    /\ pcData \in {"exited", "crashed"}
    /\ IF NoModule \in Range(infoqueue)
       THEN /\ pcCorrector' = "done"
            /\ log' = log \cup {<<"Processing done", NoModule, NoUnit>>}
       ELSE /\ pcCorrector' = "crashed"
            /\ log' = log \cup {<<"traceback", NoModule, NoUnit>>}
    /\ UNCHANGED <<config, editing, host, queues, procs, document, waitforprocessors, pcData, putcount>>

(***************************************************************************)
(* Construction of the Corrector from a configuration file:                *)
(* Corrector.__init__, parseconfig, Module.verifysettings, append.         *)
(* A string is a sequence of characters; a module id is named by its       *)
(* Spelling.                                                               *)
(***************************************************************************)
ConfigIds == ModuleIds \cup {"A.B", "A B", "A/B"}

Spelling(id) ==
    CASE id = "A.B" -> <<"A", ".", "B">>
      [] id = "A B" -> <<"A", " ", "B">>
      [] id = "A/B" -> <<"A", "/", "B">>
      [] OTHER -> <<id>>

\* Module.verifysettings: for c in self.id: if c in ('.',' ','/'): raise ValueError
ForbiddenChars == {".", " ", "/"}
ValidId(id) == \A i \in 1..Len(Spelling(id)) : Spelling(id)[i] \notin ForbiddenChars

\* Module.verifysettings: self.local = bool(self.settings['local']), False when absent
verifylocal(setting) == setting = "true"

\* an append that refuses an id that is already registered
appendUnique(reg, id) == IF id \in Range(reg) THEN <<>> ELSE Append(reg, id)

\* Corrector.append: self.modules[module.id] = module, on an ordered dictionary:
\* a new id goes to the end, an id already present keeps its place
append(reg, id) == IF id \in Range(reg) THEN reg ELSE Append(reg, id)

NoSpec == [id |-> NoModule, enabled |-> FALSE, depends |-> {}, local |-> "absent",
           submodule |-> FALSE]

\* the loop of parseconfig over the module specifications, from specification i
RECURSIVE parseconfig(_, _, _, _)
parseconfig(specs, i, reg, byid) ==
    IF i > Len(specs) THEN [error |-> "none", modules |-> reg, byid |-> byid]
    ELSE LET spec == specs[i]
         IN IF ~spec.enabled THEN parseconfig(specs, i + 1, reg, byid)
            ELSE IF spec.id = NoModule
                 THEN [error |-> "Mising ID", modules |-> reg, byid |-> byid]
            ELSE IF ~ValidId(spec.id)
                 THEN [error |-> "Invalid character in module ID", modules |-> reg,
                       byid |-> byid]
            ELSE IF spec.submodule /\ verifylocal(spec.local)
                 THEN [error |-> "submodules can not be local only", modules |-> reg,
                       byid |-> byid]
            ELSE parseconfig(specs, i + 1, append(reg, spec.id),
                             [byid EXCEPT ![spec.id] = spec])

\* a constructor that never iterates the registry
ConstructibleUnchecked(reg, deps) == TRUE

\* a registry the Corrector can be constructed with: __init__ iterates it once
\* for self.units, and the iteration raises on unsolvable dependencies
Constructible(reg, deps) == ~Iterate(reg, deps).raised

\* Corrector.__init__ with settings['config']: the registry is built, then iterated
Construct ==
    /\ pcCorrector = "construct"
    /\ LET r == parseconfig(configfile, 1, <<>>, [id \in ConfigIds |-> NoSpec])
           deps == [m \in ModuleIds |-> r.byid[m].depends]
           failure == IF r.error # "none" THEN r.error
                      ELSE IF ~Constructible(r.modules, deps)
                           THEN "unsolvable dependencies"
                           ELSE "none"
       IN /\ modules' = r.modules
          /\ depends' = deps
          /\ local' = [m \in ModuleIds |-> verifylocal(r.byid[m].local)]
          /\ submodule' = [m \in ModuleIds |-> r.byid[m].submodule]
          /\ pcCorrector' = IF failure = "none" THEN "main" ELSE "failed"
          /\ log' = IF failure = "none" THEN log
                    ELSE log \cup {<<failure, NoModule, NoUnit>>}
    /\ UNCHANGED <<editing, nwords, UNIT, servers, behaviour, rejected, prepnone, runs, outputs,
                   threads, module_ids, host, queues, procs, document,
                   waitforprocessors, pcData, putcount>>

(***************************************************************************)
(* The server registry: the PID files of <root>/run/ and the commands      *)
(* startservers, stopservers, listservers and wipe of Corrector.main.      *)
(***************************************************************************)
Ports == PortMin..(PortMin + NumPorts - 1)
Pids == 1..MaxChildren

DigitChars == <<"0", "1", "2", "3", "4", "5", "6", "7", "8", "9">>

\* str(port)
RECURSIVE str(_)
str(n) == IF n < 10 THEN <<DigitChars[n + 1]>>
          ELSE str(n \div 10) \o <<DigitChars[(n % 10) + 1]>>

IsDigits(t) == t # <<>> /\ \A i \in 1..Len(t) : t[i] \in Range(DigitChars)
DigitValue(c) == CHOOSE d \in 0..9 : DigitChars[d + 1] = c

\* int(fields[-1]) of a string of digits
RECURSIVE int(_)
int(t) == IF Len(t) = 1 THEN DigitValue(t[1])
          ELSE int(SubSeq(t, 1, Len(t) - 1)) * 10 + DigitValue(t[Len(t)])

\* t.split(sep), reading t from character i: cur is the field being read, acc the
\* fields read; two separators in a row give an empty field
RECURSIVE SplitFrom(_, _, _, _, _)
SplitFrom(t, sep, i, cur, acc) ==
    IF i > Len(t) THEN Append(acc, cur)
    ELSE IF t[i] = sep THEN SplitFrom(t, sep, i + 1, <<>>, Append(acc, cur))
    ELSE SplitFrom(t, sep, i + 1, Append(cur, t[i]), acc)

split(t, sep) == SplitFrom(t, sep, 1, <<>>, <<>>)

\* sep.join(fields)
RECURSIVE join(_, _)
join(fields, sep) ==
    IF fields = <<>> THEN <<>>
    ELSE IF Len(fields) = 1 THEN fields[1]
    ELSE fields[1] \o <<sep>> \o join(Tail(fields), sep)

\* this host: socket.getfqdn(), gethostname(), gethostbyname(gethostname()), '127.0.0.1'
FQDN == <<"h", ".", "n", "l">>
HostName == <<"h">>
HostIP == <<"1", "0", ".", "0", ".", "0", ".", "5">>
Loopback == <<"1", "2", "7", ".", "0", ".", "0", ".", "1">>
MYHOSTS == {FQDN, HostName, HostIP, Loopback}
OtherHost == <<"o", ".", "n", "l">>

\* a file name built with the host before the module id
pidfilenameHostFirst(m, h, port) ==
    h \o <<".">> \o Spelling(m) \o <<".">> \o str(port) \o <<".", "p", "i", "d">>

\* module.id + "." + host + "." + str(port) + ".pid"
pidfilename(m, h, port) ==
    Spelling(m) \o <<".">> \o h \o <<".">> \o str(port) \o <<".", "p", "i", "d">>

\* glob(runpath + "/*.pid"): the names that end in .pid and do not start with a dot
IsPidFile(name) ==
    /\ Len(name) > 4
    /\ SubSeq(name, Len(name) - 3, Len(name)) = <<".", "p", "i", "d">>
    /\ name[1] # "."

\* findservers: fields = filename.split('.')[:-1]; fields[0] names the module, the
\* fields between the first and the last joined by '.' the host, the last the port
parsepidfile(name) ==
    LET all == split(name, ".")
        fields == SubSeq(all, 1, Len(all) - 1)
    IN [module |-> fields[1],
        host |-> join(SubSeq(fields, 2, Len(fields) - 1), "."),
        port |-> fields[Len(fields)]]

\* self.modules[fields[0]]: the registered ids with this spelling (KeyError: none)
Lookup(reg, name) == {m \in Range(reg) : Spelling(m) = name}

NoChild == [module |-> NoModule, host |-> <<>>, port |-> PortMin, state |-> "none"]
Running(p) == children[p].state \in {"starting", "listening", "hung"}

\* a probe of (host, port) succeeds: a server accepts the connection and answers
\* %GETLOAD% with a float within the timeout
Answers(h, port) ==
    \/ <<h, port>> \in foreign
    \/ \E p \in Pids : /\ children[p].state = "listening"
                       /\ children[p].host = h /\ children[p].port = port

\* a findservers that lists the server of every PID file without a probe
findserversUnprobed(dir, reg) ==
    LET parsed == {parsepidfile(f.name) : f \in {g \in dir : IsPidFile(g.name)}}
        known == {pf \in parsed : Lookup(reg, pf.module) # {}}
        good == {pf \in known : IsDigits(pf.port)}
    IN [raised |-> known # good,
        servers |-> UNION {{<<m, pf.host, int(pf.port)>> : m \in Lookup(reg, pf.module)} :
                             pf \in good}]

\* Corrector.findservers over the files of the run directory; int(fields[-1]) is
\* outside the try block, so a port that is no number ends the call with ValueError
findservers(dir, reg) ==
    LET parsed == {parsepidfile(f.name) : f \in {g \in dir : IsPidFile(g.name)}}
        known == {pf \in parsed : Lookup(reg, pf.module) # {}}
        good == {pf \in known : IsDigits(pf.port)}
        probed == {[module |-> pf.module, host |-> pf.host, port |-> int(pf.port)] :
                     pf \in good}
    IN [raised |-> known # good,
        servers |-> UNION {{<<m, s.host, s.port>> : m \in Lookup(reg, s.module)} :
                             s \in {t \in probed : Answers(t.host, t.port)}}]

\* the command lines so far, the latest first, those before the latest two not told
\* apart; each invocation constructs the Corrector from the same configuration, so
\* that one construction stands for all
Completed(cmd) ==
    <<cmd>> \o [i \in 1..Len(lastcmd) |-> IF i = 1 THEN lastcmd[1] ELSE "earlier"]
Invoke == pcCorrector = "main" /\ Len(lastcmd) < MaxCommands

\* startservers: the modules `for module in self` visits that are not local
RemoteModules == SelectSeq(IterModules, LAMBDA m : ~local[m])

\* sock.connect_ex(('127.0.0.1', port)) != 0: nothing listens on the port
FreePorts == {port \in Ports :
                ~\E p \in Pids : children[p].state = "listening" /\ children[p].port = port}

\* the loop of startservers from module i: Popen, then the PID file is written
RECURSIVE StartLoop(_, _, _, _, _, _, _)
StartLoop(mods, ports, i, dir, ch, pid, sp) ==
    IF i > Len(mods) THEN [dir |-> dir, children |-> ch, spawned |-> sp]
    ELSE LET name == pidfilename(mods[i], FQDN, ports[i])
             child == [module |-> mods[i], host |-> FQDN, port |-> ports[i],
                       state |-> "starting"]
         IN StartLoop(mods, ports, i + 1,
                      {f \in dir : f.name # name} \cup {[name |-> name, pid |-> pid]},
                      [ch EXCEPT ![pid] = child], pid + 1,
                      sp \cup {[module |-> mods[i], host |-> FQDN, port |-> ports[i],
                                pid |-> pid]})

CmdStartServers ==
    /\ Invoke
    /\ nextpid + Len(RemoteModules) - 1 <= MaxChildren
    /\ \E ports \in [1..Len(RemoteModules) -> FreePorts] :
          LET r == StartLoop(RemoteModules, ports, 1, rundir, children, nextpid, {})
          IN /\ rundir' = r.dir
             /\ children' = r.children
             /\ spawned' = r.spawned
    /\ before' = rundir
    /\ nextpid' = nextpid + Len(RemoteModules)
    /\ lastcmd' = Completed("startservers")
    /\ UNCHANGED <<config, editing, configfile, foreign, found, signalled, queues, procs, document,
                   waitforprocessors, pcCorrector, pcData, log, putcount>>

\* stopservers: findservers(), then for the servers it found of modules that are not
\* local and whose host is this host: read the pid, os.kill(pid, 15), unlink the file
StopTargets(servs) == {t \in servs : ~local[t[1]] /\ t[2] \in MYHOSTS}

CmdStopServers ==
    /\ Invoke
    /\ LET fs == findservers(rundir, modules)
           names == {pidfilename(t[1], t[2], t[3]) : t \in StopTargets(fs.servers)}
           pids == {f.pid : f \in {g \in rundir : g.name \in names}}
       IN IF fs.raised
          THEN /\ lastcmd' = Completed("ValueError")
               /\ found' = {}
               /\ UNCHANGED <<rundir, children, signalled>>
          ELSE /\ lastcmd' = Completed("stopservers")
               /\ found' = fs.servers
               /\ rundir' = {f \in rundir : f.name \notin names}
               /\ signalled' = signalled \cup pids
               /\ children' = [p \in Pids |->
                                 IF p \in pids /\ Running(p)
                                 THEN [children[p] EXCEPT !.state = "ended"]
                                 ELSE children[p]]
    /\ UNCHANGED <<config, editing, configfile, foreign, spawned, before, nextpid, queues, procs,
                   document, waitforprocessors, pcCorrector, pcData, log, putcount>>

\* listservers: servers = self.findservers(), printed
CmdListServers ==
    /\ Invoke
    /\ LET fs == findservers(rundir, modules)
       IN IF fs.raised
          THEN lastcmd' = Completed("ValueError") /\ found' = {}
          ELSE lastcmd' = Completed("listservers") /\ found' = fs.servers
    /\ UNCHANGED <<config, editing, configfile, rundir, children, foreign, signalled, spawned,
                   before, nextpid, queues, procs, document, waitforprocessors,
                   pcCorrector, pcData, log, putcount>>

\* a wipe that leaves the files of other hosts
wipeOwn(dir) == {f \in dir : parsepidfile(f.name).host \notin MYHOSTS}

\* wipe: os.unlink of every file glob(runpath + "/*.pid") gives
wipe(dir) == {f \in dir : ~IsPidFile(f.name)}

CmdWipe ==
    /\ Invoke
    /\ rundir' = wipe(rundir)
    /\ lastcmd' = Completed("wipe")
    /\ UNCHANGED <<config, editing, configfile, children, foreign, found, signalled, spawned,
                   before, nextpid, queues, procs, document, waitforprocessors,
                   pcCorrector, pcData, log, putcount>>

\* the servers of module m among those findservers returned, as module.servers
ServersOf(servs, m) == {t \in servs : t[1] = m}

\* the run command: main sets module.forcelocal = args.local, Corrector.run calls
\* load, whose findservers fills module.servers and sets module.local of a module
\* with forcelocal for which a server answered; the DataThread is created next.
\* A server that answered the probe may refuse the connections of the run.
CmdRun ==
    /\ Invoke
    /\ nextpid = 1    \* explored for the servers of other processes only
    /\ LET fs == findservers(rundir, modules)
       IN IF fs.raised
          THEN /\ lastcmd' = <<"ValueError">>
               /\ found' = {}
               /\ UNCHANGED <<servers, behaviour, local, pcCorrector>>
          ELSE /\ found' = fs.servers
               /\ pcCorrector' = "create"
               /\ servers' = [m \in ModuleIds |->
                                [i \in 1..Cardinality(ServersOf(fs.servers, m)) |-> i]]
               /\ \E b \in [ModuleIds -> {"answers", "refuses"}] :
                     behaviour' = [m \in ModuleIds |->
                                     [i \in 1..Cardinality(ServersOf(fs.servers, m)) |-> b[m]]]
               /\ \E forcelocal \in BOOLEAN :
                     /\ lastcmd' = IF forcelocal THEN <<"run", "--local">> ELSE <<"run">>
                     /\ local' = [m \in ModuleIds |->
                                    local[m] \/ (forcelocal /\ ServersOf(fs.servers, m) # {})]
    /\ spawned' = {}
    /\ before' = {}
    /\ UNCHANGED <<editing, nwords, modules, depends, UNIT, submodule, rejected, prepnone, runs,
                   outputs, threads, module_ids, configfile, rundir, children, foreign,
                   signalled, nextpid, queues, procs, document, waitforprocessors,
                   pcData, log, putcount>>

\* a spawned child: startserver loads the module and runserver binds the port; when
\* the address is in use the OSError is logged and the process ends
ChildServe(p) ==
    /\ children[p].state = "starting"
    /\ LET inuse == \E q \in Pids : /\ children[q].state \in {"listening", "hung"}
                                    /\ children[q].port = children[p].port
       IN children' = [children EXCEPT ![p].state = IF inuse THEN "ended" ELSE "listening"]
    /\ UNCHANGED <<config, editing, configfile, rundir, foreign, found, signalled, spawned, before,
                   nextpid, lastcmd, queues, procs, document, waitforprocessors,
                   pcCorrector, pcData, log, putcount>>

\* a server process ends by itself (module.load raises, the process is killed)
ChildExit(p) ==
    /\ Running(p)
    /\ children' = [children EXCEPT ![p].state = "ended"]
    /\ UNCHANGED <<config, editing, configfile, rundir, foreign, found, signalled, spawned, before,
                   nextpid, lastcmd, queues, procs, document, waitforprocessors,
                   pcCorrector, pcData, log, putcount>>

\* a listening server stops answering the load probe within the timeout
ChildHang(p) ==
    /\ children[p].state = "listening"
    /\ children' = [children EXCEPT ![p].state = "hung"]
    /\ UNCHANGED <<config, editing, configfile, rundir, foreign, found, signalled, spawned, before,
                   nextpid, lastcmd, queues, procs, document, waitforprocessors,
                   pcCorrector, pcData, log, putcount>>

(***************************************************************************)
(* Configurations and the initial state: Corrector.run has loaded the      *)
(* modules, created the queues and acquired the lock.                      *)
(***************************************************************************)
Keys == ModuleIds \X Elements
NoDepends == [m \in ModuleIds |-> {}]
Queries(q) == [kind |-> "queries", queries |-> q]

\* a document of NumWords words, two local Word modules declared A, B without
\* dependencies, one worker, every run giving data and every result one query
\* that applies
DefaultConfig ==
    [nwords |-> NumWords,
     modules |-> <<"A", "B">>,
     depends |-> NoDepends,
     UNIT |-> [m \in ModuleIds |-> "Word"],
     local |-> [m \in ModuleIds |-> TRUE],
     submodule |-> [m \in ModuleIds |-> FALSE],
     servers |-> [m \in ModuleIds |-> <<>>],
     behaviour |-> [m \in ModuleIds |-> <<>>],
     rejected |-> {},
     prepnone |-> {},
     runs |-> [k \in Keys |-> "data"],
     outputs |-> [k \in Keys |-> Queries(<<"ok">>)],
     threads |-> 1,
     module_ids |-> {}]

\* a document of one word: every declaration order, with and without a dependency,
\* for each worker count
OrderConfigs ==
    {[DefaultConfig EXCEPT !.nwords = 1, !.modules = o, !.depends = d, !.threads = t] :
        o \in Perms(PipelineIds),
        d \in {NoDepends, [NoDepends EXCEPT !["B"] = {"A"}]},
        t \in 1..MaxThreads}

\* two workers on the whole document, and a dependency declared in either order
ConcurrentConfigs ==
    {[DefaultConfig EXCEPT !.threads = 2],
     [DefaultConfig EXCEPT !.threads = 2, !.depends["B"] = {"A"}],
     [DefaultConfig EXCEPT !.threads = 2, !.depends["A"] = {"B"}]}

\* what the modules' callbacks do for the first word
CallbackConfigs ==
    {[DefaultConfig EXCEPT !.runs[<<"A", 1>>] = r] : r \in RunOutcomes}
    \cup {[DefaultConfig EXCEPT !.outputs[<<"A", 1>>] = po] : po \in ProcessOutputs}
    \cup {[DefaultConfig EXCEPT !.rejected = {<<"B", 1>>}],
          [DefaultConfig EXCEPT !.prepnone = {<<"A", 1>>}],
          [DefaultConfig EXCEPT !.UNIT["A"] = "Document"],
          [DefaultConfig EXCEPT !.module_ids = {"A"}]}

\* a run of module A only, with a B that depends on A declared before or after it
SelectionConfigs ==
    {[DefaultConfig EXCEPT !.nwords = 1, !.modules = o, !.depends["B"] = {"A"},
                           !.module_ids = {"A"}] : o \in Perms(PipelineIds)}

LocalConfigs ==
    {c \in OrderConfigs \cup ConcurrentConfigs \cup CallbackConfigs \cup SelectionConfigs :
        Constructible(c.modules, c.depends)}

\* module A is remote with up to MaxServers servers found, each answering,
\* refusing connections or failing; B is local
RemoteDefault(k, b) ==
    [DefaultConfig EXCEPT !.local["A"] = FALSE,
                          !.servers["A"] = [i \in 1..k |-> i],
                          !.behaviour["A"] = b,
                          !.module_ids = {"A"}]

\* every number of servers and every behaviour of each
ServerConfigs ==
    UNION {{RemoteDefault(k, b) : b \in [1..k -> ServerBehaviours]} : k \in 0..MaxServers}

RemoteConfigs ==
    ServerConfigs
    \cup {[RemoteDefault(1, <<"answers">>) EXCEPT !.runs[<<"A", 1>>] = r] :
            r \in RunOutcomes}
    \cup {[RemoteDefault(1, <<"answers">>) EXCEPT !.nwords = 1, !.threads = t] :
            t \in 1..MaxThreads}
    \cup {[RemoteDefault(2, <<"refuses", "answers">>) EXCEPT !.threads = 2],
          [RemoteDefault(2, <<"answers", "fails">>) EXCEPT !.threads = 2],
          [RemoteDefault(1, <<"answers">>) EXCEPT !.submodule["A"] = TRUE],
          [RemoteDefault(1, <<"answers">>) EXCEPT !.module_ids = {}],
          [RemoteDefault(1, <<"answers">>) EXCEPT !.depends["A"] = {"B"},
                                                  !.module_ids = {}]}

\* the state of the pipeline before DataThread is created, for configuration c
AtRest(c) ==
    /\ nwords = c.nwords
    /\ modules = c.modules
    /\ depends = c.depends
    /\ UNIT = c.UNIT
    /\ local = c.local
    /\ submodule = c.submodule
    /\ servers = c.servers
    /\ behaviour = c.behaviour
    /\ rejected = c.rejected
    /\ prepnone = c.prepnone
    /\ runs = c.runs
    /\ outputs = c.outputs
    /\ threads = c.threads
    /\ module_ids = c.module_ids
    /\ inputqueue = <<>>
    /\ unfinished = 0
    /\ outputqueue = <<>>
    /\ feeder = [w \in Workers |-> <<>>]
    /\ infoqueue = <<>>
    /\ timequeue = [m \in ModuleIds |-> 0]
    /\ waitforprocessors = TRUE
    /\ pcData = "new"
    /\ pcProc = [w \in Workers |-> "new"]
    /\ held = [w \in Workers |-> NoItem]
    /\ seqnr = [w \in Workers |-> [m \in ModuleIds |-> -1]]
    /\ clients = [w \in Workers |-> {}]
    /\ attempts = [w \in Workers |-> <<>>]
    /\ ranwith = [w \in Workers |-> NoArgument]
    /\ foliadoc = {}
    /\ declared = {}
    /\ saved = {}
    /\ written = 0
    /\ initcalls = [m \in ModuleIds |-> 0]
    /\ finishcalls = [m \in ModuleIds |-> 0]
    /\ log = {}
    /\ putcount = [p \in ModuleIds \X Elements |-> 0]
    /\ processed = {}
    /\ suggestion = <<>>
    /\ query = <<>>

\* no command has touched the run directory
NoRegistry ==
    /\ configfile = <<>>
    /\ rundir = {}
    /\ children = [p \in Pids |-> NoChild]
    /\ foreign = {}
    /\ found = {}
    /\ signalled = {}
    /\ spawned = {}
    /\ before = {}
    /\ nextpid = 1
    /\ lastcmd = <<>>

\* Corrector.run has loaded configuration c and is about to create the DataThread
Setup(c) ==
    /\ AtRest(c)
    /\ pcCorrector = "create"
    /\ NoRegistry

Init == \E c \in LocalConfigs : Setup(c)

Next ==
    \/ CreateDataThread
    \/ StartDataThread
    \/ StartThreads
    \/ ReleaseLock
    \/ JoinInput
    \/ JoinData
    \/ \E w \in Workers : ProcGet(w)
    \/ \E w \in Workers : ProcPrepare(w)
    \/ \E w \in Workers : ProcRun(w)
    \/ \E w \in Workers : ProcFeed(w)
    \/ DataWait
    \/ DataLoop
    \/ DataTimeout
    \/ DataFinish
    \/ DataSave

Spec == Init /\ [][Next]_vars

InitRemote == \E c \in RemoteConfigs : Setup(c)
SpecRemote == InitRemote /\ [][Next]_vars

(***************************************************************************)
(* The command line: a configuration file is read by the constructor, and  *)
(* the commands of Corrector.main act on the run directory.                *)
(***************************************************************************)
ModuleSpec(id, deps, loc) ==
    [id |-> id, enabled |-> TRUE, depends |-> deps, local |-> loc, submodule |-> FALSE]

\* three local modules A, B, C, each depending on at most one module: on itself, on
\* a module declared before it or on one declared after it
DependsFiles ==
    {<<ModuleSpec("A", d["A"], "true"), ModuleSpec("B", d["B"], "true"),
       ModuleSpec("C", d["C"], "true")>> :
        d \in [ModuleIds -> {{}} \cup {{x} : x \in ModuleIds}]}

\* two specifications with every id, enabled or not
IdFiles ==
    {<<[ModuleSpec(i1, {}, "true") EXCEPT !.enabled = e1],
       [ModuleSpec(i2, {}, "true") EXCEPT !.enabled = e2]>> :
        i1 \in {"A", NoModule, "A.B"}, i2 \in {"A", "B", NoModule, "A B", "A/B"},
        e1 \in BOOLEAN, e2 \in BOOLEAN}
    \cup {<<[ModuleSpec("A", {}, loc) EXCEPT !.submodule = TRUE]>> :
            loc \in {"absent", "true", "false"}}

\* module A alone with every local setting; a remote A declared after a local B that
\* depends on it or not; two remote modules
ServerFiles ==
    {<<ModuleSpec("A", {}, la)>> : la \in {"absent", "true", "false"}}
    \cup {<<ModuleSpec("B", d, "true"), ModuleSpec("A", {}, "false")>> : d \in {{}, {"A"}}}
    \cup {<<ModuleSpec("B", {}, "absent"), ModuleSpec("A", {}, "false")>>}

\* two local modules, one of which depends on a module that is not configured
MissingFiles ==
    {<<ModuleSpec("A", {"C"}, "true"), ModuleSpec("B", {}, "true")>>,
     <<ModuleSpec("A", {}, "true"), ModuleSpec("B", {"A", "C"}, "true")>>}

ConfigFiles == DependsFiles \cup IdFiles \cup ServerFiles \cup MissingFiles

\* a PID file left by a process that is not one of this model's children
NoPid == 0
BadPort == <<"A", ".">> \o FQDN \o <<".", "x", ".", "p", "i", "d">>

\* the run directory the commands find: empty, a server of A on another host, a
\* file of a dead server on this host, the file of a module that is not configured,
\* a file whose port is no number
RunDirs ==
    {[rundir |-> {}, foreign |-> {}],
     [rundir |-> {[name |-> pidfilename("A", OtherHost, PortMin), pid |-> NoPid]},
      foreign |-> {<<OtherHost, PortMin>>}],
     [rundir |-> {[name |-> pidfilename("A", FQDN, PortMin), pid |-> NoPid]},
      foreign |-> {}],
     [rundir |-> {[name |-> pidfilename("C", HostIP, PortMin), pid |-> NoPid]},
      foreign |-> {<<HostIP, PortMin>>}],
     [rundir |-> {[name |-> BadPort, pid |-> NoPid]}, foreign |-> {}]}

\* before the constructor has run: no registry, a document of one word, one worker
Unconstructed ==
    [DefaultConfig EXCEPT !.nwords = 1, !.modules = <<>>,
                          !.local = [m \in ModuleIds |-> FALSE]]

InitCommands ==
    /\ AtRest(Unconstructed)
    /\ pcCorrector = "construct"
    /\ \E d \in RunDirs :
          /\ rundir = d.rundir
          /\ foreign = d.foreign
          /\ configfile \in IF d.rundir = {} THEN ConfigFiles ELSE ServerFiles
    /\ children = [p \in Pids |-> NoChild]
    /\ found = {}
    /\ signalled = {}
    /\ spawned = {}
    /\ before = {}
    /\ nextpid = 1
    /\ lastcmd = <<>>

NextCommands ==
    \/ Construct
    \/ CmdStartServers
    \/ CmdStopServers
    \/ CmdListServers
    \/ CmdWipe
    \/ CmdRun
    \/ \E p \in Pids : ChildServe(p)
    \/ \E p \in Pids : ChildExit(p)
    \/ \E p \in Pids : ChildHang(p)
    \/ Next

SpecCommands == InitCommands /\ [][NextCommands]_vars

(***************************************************************************)
(* The query strings of the FoLiA editing methods.  A query is a sequence   *)
(* whose elements are the characters of the suggested text and of the       *)
(* quotes around it, and the fixed parts of the query as whole strings.     *)
(***************************************************************************)
Quote == "\""
Backslash == "\\"
Alphabet == {"a", Quote, Backslash}

\* the texts of at most n characters
RECURSIVE TextsUpTo(_)
TextsUpTo(n) ==
    IF n = 0 THEN {<<>>}
    ELSE TextsUpTo(n - 1)
         \cup {Append(t, c) : t \in {x \in TextsUpTo(n - 1) : Len(x) = n - 1}, c \in Alphabet}

Texts == TextsUpTo(MaxText)

\* suggestion.replace('"','\\"')
replace(t) ==
    LET RECURSIVE R(_)
        R(i) == IF i > Len(t) THEN <<>>
                ELSE (IF t[i] = Quote THEN <<Backslash, Quote>> ELSE <<t[i]>>) \o R(i + 1)
    IN R(1)

\* "<head> text \"" + suggestion.replace('"','\\"') + "\"" + "<tail>"
Literal(head, t, tail) == <<head, Quote>> \o replace(t) \o <<Quote, tail>>

addsuggestions(t) ==
    Literal("EDIT t (AS CORRECTION OF set WITH class \"cls\" annotator \"a\" annotatortype \"auto\" datetime now SUGGESTION text ",
            t, ") FOR ID \"w\" RETURN nothing")

splitcorrection(t) ==
    Literal("SUBSTITUTE (AS CORRECTION OF set WITH class \"cls\" annotator \"a\" annotatortype \"auto\" datetime now SUGGESTION (SUBSTITUTE w WITH text ",
            t, ") WITH confidence 1) FOR SPAN ID \"w\" RETURN nothing")

mergecorrection(t) ==
    Literal("SUBSTITUTE (AS CORRECTION OF set WITH class \"cls\" annotator \"a\" annotatortype \"auto\" datetime now SUGGESTION (SUBSTITUTE w WITH text ",
            t, ")) FOR SPAN ID \"w\" RETURN nothing")

suggestinsertion(t) ==
    Literal("PREPEND (AS CORRECTION OF set WITH class \"cls\" annotator \"a\" annotatortype \"auto\" datetime now SUGGESTION (ADD w WITH text ",
            t, ") ) FOR ID \"w\" RETURN nothing")

\* processoutput builds the query for a suggested text with one of the methods
BuildQuery(t, q) ==
    /\ suggestion' = t
    /\ query' = q
    /\ UNCHANGED <<config, host, queues, procs, document, waitforprocessors, pcCorrector,
                   pcData, log, putcount>>

AddSuggestions == \E t \in Texts : BuildQuery(t, addsuggestions(t))
SplitCorrection == \E t \in Texts : BuildQuery(t, splitcorrection(t))
MergeCorrection == \E t \in Texts : BuildQuery(t, mergecorrection(t))
SuggestInsertion == \E t \in Texts : BuildQuery(t, suggestinsertion(t))

InitQueries == Setup(DefaultConfig)

NextQueries ==
    \/ AddSuggestions
    \/ SplitCorrection
    \/ MergeCorrection
    \/ SuggestInsertion

SpecQueries == InitQueries /\ [][NextQueries]_vars

(***************************************************************************)
(* Properties                                                              *)
(***************************************************************************)
CountKey(q, k) == Cardinality({i \in 1..Len(q) : <<q[i].module_id, q[i].unit_id>> = k})
Ended(w) == pcProc[w] \in {"stopped", "crashed"}
Remote(m) == ~local[m]
Answering(m) == {i \in 1..Len(servers[m]) : behaviour[m][i] = "answers"}

\* the Corrections the queries of the result of key k add when they are interpreted
OkCorrections(k) ==
    IF runs[k] = "data" /\ outputs[k].kind = "queries"
    THEN {<<k[1], k[2], i>> :
            i \in {j \in 1..Len(outputs[k].queries) : outputs[k].queries[j] = "ok"}}
    ELSE {}

\* the results the consumer has taken from the output queue
InFeeders(k) ==
    Cardinality(UNION {{<<w, i>> : i \in {j \in 1..Len(feeder[w]) :
                                            <<feeder[w][j].module_id, feeder[w][j].unit_id>> = k}} :
                        w \in Workers})
Consumed == {k \in Keys : putcount[k] > CountKey(outputqueue, k) + InFeeders(k)}

\* C1: when the producer has finished, the input queue holds exactly one payload for
\* every selected non-submodule module and element of its unit type that the filter
\* accepts and prepareinput gave a payload for, and no (module, unit) pair twice.
C1_OnePayloadPerUnit ==
    pcCorrector = "startdata" =>
        \A k \in Keys :
            /\ CountKey(inputqueue, k) <= 1
            /\ ( /\ k[1] \in Range(modules) /\ Selected(k[1]) /\ ~submodule[k[1]]
                 /\ UNIT[k[1]] = TypeOf(k[2]) /\ k[2] <= nwords
                 /\ k \notin rejected /\ k \notin prepnone )
               => CountKey(inputqueue, k) = 1

\* C2: a worker is running a module only when a process_output call has completed
\* for every module it depends on.
C2_RunAfterDependencies ==
    \A w \in Workers :
        pcProc[w] = "run" => depends[held[w].module_id] \subseteq processed

\* a worker took the payload of a module whose dependency has no completed
\* process_output, reached the barrier, and did not run the module
C2_Witness ==
    \E w \in Workers :
        /\ pcProc[w] = "crashed"
        /\ depends[held[w].module_id] # {}
        /\ ~(depends[held[w].module_id] \subseteq processed)
        /\ \E v \in Workers : v # w /\ pcProc[v] = "run"

\* C3: once the document is written, no result is in the output queue (none was put
\* behind the sentinel or after it), and the written document holds exactly the
\* Corrections of the queries that applied, of every result the workers put.
C3_WrittenDocumentComplete ==
    written >= 1 =>
        /\ outputqueue = <<>>
        /\ \A w \in Workers : feeder[w] = <<>>
        /\ saved = UNION {OkCorrections(k) : k \in {j \in Keys : putcount[j] > 0}}

\* C4: the output queue receives at most one result per (module_id, unit_id).
C4_AtMostOneResult == \A k \in Keys : putcount[k] <= 1

\* C5: a worker that ended is not holding a payload: every dispatch ended in a result
\* or a logged failure and released the payload.
C5_PayloadReleased == \A w \in Workers : Ended(w) => held[w] = NoItem

\* C6: once all workers have stopped, no payload and no sentinel is in the input queue.
C6_QueueEmptyWhenStopped ==
    (pcCorrector \notin {"create", "startdata", "startthreads"}
        /\ \A w \in Processors : Ended(w)) => inputqueue = <<>>

\* C7: the controller's wait on the input queue returns: when every worker has ended,
\* every item of the input queue has been marked done.
C7_JoinReturns ==
    (pcCorrector = "join" /\ \A w \in Processors : Ended(w)) => JoinReturns

\* C8: an exception of a module's run does not end the worker.
C8_RunExceptionContained ==
    \A w \in Workers :
        ~( /\ pcProc[w] = "crashed"
           /\ prepare(held[w].module_id) = "ready"
           /\ runs[<<held[w].module_id, held[w].unit_id>>] = "raise" )

\* C9: whatever processoutput and the interpreter did for the records taken so far,
\* the consumer has logged each failure, the document holds exactly the Corrections
\* of the queries that applied, and a consumer that has left its loop calls finish
\* and writes that document.
C9_ConsumerContainsFailures ==
    /\ foliadoc = UNION {OkCorrections(k) : k \in Consumed}
    /\ \A k \in Consumed :
          runs[k] = "data" =>
            /\ outputs[k].kind = "raise" =>
                  <<"Exception processing output", k[1], k[2]>> \in log
            /\ \A i \in 1..Len(outputs[k].queries) :
                  outputs[k].queries[i] # "ok" =>
                      <<outputs[k].queries[i], k[1], k[2]>> \in log
    /\ pcData = "exited" =>
          /\ saved = foliadoc
          /\ \A m \in Range(modules) : Selected(m) => finishcalls[m] >= 1

\* the document was written with the query after a failed one and the later records
\* applied
C9_Witness ==
    /\ pcData = "exited"
    /\ outputs[<<"A", 1>>].queries = <<"SyntaxError", "ok">>
    /\ <<"SyntaxError", "A", 1>> \in log
    /\ {<<"A", 1, 2>>, <<"B", 1, 1>>, <<"A", 2, 1>>} \subseteq saved

\* C10: a remote dispatch of a payload whose run gives an output, for a module with
\* a server that answers, puts the result on the output queue, and the last server
\* it tried, the one that served the call, is a server that answers.
C10_FailoverDelivers ==
    [][\A w \in Workers :
          LET m == held[w].module_id
              k == <<m, held[w].unit_id>>
          IN ( /\ pcProc[w] = "run" /\ pcProc'[w] = "get"
               /\ Remote(m) /\ Answering(m) # {}
               /\ runs[k] \in {"data", "empty"} )
             => /\ putcount'[k] = putcount[k] + 1
                /\ attempts'[w] # <<>>
                /\ attempts'[w][Len(attempts'[w])] \in Answering(m)]_vars

\* a result was delivered by a server that answers after another server refused
C10_Witness ==
    \E w \in Workers :
        /\ Len(attempts[w]) >= 2
        /\ behaviour["A"][attempts[w][1]] = "refuses"
        /\ behaviour["A"][attempts[w][Len(attempts[w])]] = "answers"
        /\ \E u \in Words : putcount[<<"A", u>>] = 1

\* C11: one remote dispatch tries at most 10 * len(servers) servers, each the next in
\* rotation after the one before; when no call can succeed (no server, none that
\* answers, or a run that raises everywhere) it logs the failure for the unit, puts
\* no result and the worker goes on to the next queue item.
C11_RetryBudget ==
    [][\A w \in Workers :
          LET m == held[w].module_id
              k == <<m, held[w].unit_id>>
              n == Len(servers[m])
              tried == attempts'[w]
          IN (pcProc[w] = "run" /\ Remote(m) /\ pcProc'[w] # "run")
             => /\ Len(tried) <= RetryFactor * n
                /\ \A i \in 1..(Len(tried) - 1) : tried[i + 1] = (tried[i] % n) + 1
                /\ (Answering(m) = {} \/ runs[k] = "raise")
                      => /\ <<"Unable to connect", m, held[w].unit_id>> \in log'
                         /\ putcount' = putcount
                         /\ pcProc'[w] = "get"
                         /\ held'[w] = NoItem]_vars

\* a dispatch over two servers used its whole budget without success and the worker
\* went on
C11_Witness ==
    \E w \in Workers :
        /\ Len(servers["A"]) = 2
        /\ Len(attempts[w]) = RetryFactor * 2 - 1
        /\ pcProc[w] \in {"get", "stopped"}
        /\ \E u \in Words : <<"Unable to connect", "A", u>> \in log

(***************************************************************************)
(* Properties of the construction and of the server registry.              *)
(***************************************************************************)
\* what parseconfig makes of the configuration file
Parsed == parseconfig(configfile, 1, <<>>, [id \in ConfigIds |-> NoSpec])
ParsedDepends == [m \in ModuleIds |-> Parsed.byid[m].depends]

\* the registered modules reached from the set X along depends in at most n steps
RECURSIVE Reached(_, _, _, _)
Reached(reg, deps, X, n) ==
    IF n = 0 THEN X
    ELSE Reached(reg, deps, X \cup UNION {deps[x] \cap Range(reg) : x \in X}, n - 1)

\* some registered module depends on itself, directly or through other modules
Cyclic(reg, deps) ==
    \E m \in Range(reg) : m \in Reached(reg, deps, deps[m] \cap Range(reg), Len(reg))

CyclicConfig == Parsed.error = "none" /\ Cyclic(Parsed.modules, ParsedDepends)

\* C12: when the depends of the configured modules contain a cycle, the only thing
\* that happens is that the construction fails with the dependency error: no server
\* is spawned, no PID file written, no init called and no payload enqueued.
C12_CycleRejected ==
    [][CyclicConfig
          => /\ pcCorrector' = "failed"
             /\ <<"unsolvable dependencies", NoModule, NoUnit>> \in log'
             /\ rundir' = rundir
             /\ children' = children
             /\ nextpid' = nextpid
             /\ initcalls' = initcalls
             /\ inputqueue' = inputqueue]_vars

\* a configuration in which A depends on B, B on C and C on A was rejected
C12_Witness ==
    /\ CyclicConfig
    /\ pcCorrector = "failed"
    /\ ParsedDepends = [m \in ModuleIds |-> IF m = "A" THEN {"B"}
                                            ELSE IF m = "B" THEN {"C"} ELSE {"A"}]
    /\ rundir = {}
    /\ \A m \in ModuleIds : initcalls[m] = 0

\* the specifications of the configuration file that are enabled
EnabledSpecs == {i \in 1..Len(configfile) : configfile[i].enabled}

\* an enabled specification without id, with a forbidden character in its id, or
\* with the id of another enabled specification
BadIds ==
    \E i \in EnabledSpecs :
        \/ configfile[i].id = NoModule
        \/ ~ValidId(configfile[i].id)
        \/ \E j \in EnabledSpecs \ {i} : configfile[j].id = configfile[i].id

\* C13: a configuration with a missing, ill-formed or duplicate id of an enabled
\* specification is rejected by the constructor, and a registry that is constructed
\* holds one module for each enabled specification, under its valid id.
C13_IdsChecked ==
    pcCorrector \notin {"construct", "failed"}
        => /\ ~BadIds
           /\ Len(modules) = Cardinality(EnabledSpecs)
           /\ \A i \in EnabledSpecs : /\ configfile[i].id \in Range(modules)
                                      /\ ValidId(configfile[i].id)

\* the hosts a PID file can name: the names of this host, dotted or not, and another
Hosts == MYHOSTS \cup {OtherHost}

\* C14: for every registered module id m, every host h, with or without dots, and
\* every port p, findservers parses the name of the PID file that startservers
\* writes for (m, h, p) back to the module m, the host h and the port p.
\* The names depend on the registry only, which no command changes: they are
\* compared for each registry when it has been constructed.
C14_RoundTrip ==
    (pcCorrector = "main" /\ lastcmd = <<>>) =>
    \A m \in Range(modules), h \in Hosts, port \in Ports \cup {PortMax} :
        LET pf == parsepidfile(pidfilename(m, h, port))
        IN /\ IsPidFile(pidfilename(m, h, port))
           /\ Lookup(modules, pf.module) = {m}
           /\ pf.host = h
           /\ IsDigits(pf.port)
           /\ int(pf.port) = port

\* findservers found, under its own name, a server that startservers spawned
C14_Witness ==
    \E s \in spawned :
        /\ <<s.module, s.host, s.port>> \in found
        /\ \E f \in rundir : f.name = pidfilename(s.module, s.host, s.port)

\* the PID files of the directory dir that record a server of a registered module
\* that is not local, on one of this host's names
OwnFiles(dir) ==
    {f \in dir : /\ IsPidFile(f.name)
                 /\ parsepidfile(f.name).host \in MYHOSTS
                 /\ Lookup(modules, parsepidfile(f.name).module) # {}
                 /\ \A m \in Lookup(modules, parsepidfile(f.name).module) : ~local[m]}

\* a command line of this kind has just completed
Ran(cmd) == lastcmd' # lastcmd /\ lastcmd'[1] = cmd

\* C15: when stopservers completes, no PID file of this host is left in the run
\* directory, whether the recorded server was listening, still starting, not
\* answering the probe or dead, and the process of every such file was signalled.
C15_StopClearsHost ==
    [][Ran("stopservers")
          => /\ OwnFiles(rundir') = {}
             /\ \A f \in OwnFiles(rundir) : f.pid \in Pids => f.pid \in signalled']_vars

\* C16: stopservers run after startservers, whatever the spawned servers have done
\* in between, leaves the run directory as it was before startservers and leaves
\* none of the spawned server processes running (taken for a directory that held
\* no file of this host before).
C16_StartStopRestores ==
    [][(Ran("stopservers") /\ lastcmd # <<>> /\ lastcmd[1] = "startservers"
                           /\ OwnFiles(before) = {})
          => /\ rundir' = before
             /\ \A s \in spawned :
                   children'[s.pid].state \notin {"starting", "listening", "hung"}]_vars

\* C17: listservers run directly after startservers reports exactly the servers
\* that startservers spawned, whatever the spawned processes have done so far
\* (taken for a run directory that was empty before startservers).
C17_ListAfterStart ==
    (Len(lastcmd) >= 2 /\ lastcmd[1] = "listservers" /\ lastcmd[2] = "startservers"
                       /\ before = {})
        => found = {<<s.module, s.host, s.port>> : s \in spawned}

\* C18: wipe removes every PID file and signals no process: when it completes the
\* run directory holds no PID file, findservers reports no server, and the server
\* processes are in the state they were in, the running ones still running.
C18_WipeOrphans ==
    [][Ran("wipe")
          => /\ \A f \in rundir' : ~IsPidFile(f.name)
             /\ findservers(rundir', modules').servers = {}
             /\ ~findservers(rundir', modules').raised
             /\ signalled' = signalled
             /\ children' = children]_vars

\* wipe after startservers: the directory is empty and a spawned server that was
\* never signalled is listening
C18_Witness ==
    /\ lastcmd = <<"wipe", "startservers">>
    /\ spawned # {}
    /\ rundir = {}
    /\ \E s \in spawned : children[s.pid].state = "listening" /\ s.pid \notin signalled

\* the document as the consumer serialises it: the corrections of the tree and the
\* declarations of the header
DocumentChanged == foliadoc' # foliadoc \/ declared' # declared

\* C19 as stated: every step that changes the document is a step of the consumer.
C19_OnlyConsumerChanges ==
    [][DocumentChanged
          => (DataWait \/ DataLoop \/ DataTimeout \/ DataFinish \/ DataSave)]_vars

\* C19 amended: the elements of the document are changed by the consumer's loop
\* only; the producer changes the declarations only, once, before it enqueues a
\* payload, to those of the selected modules; no step of a worker changes either.
C19_ProducerDeclaresOnly ==
    [][/\ foliadoc' # foliadoc => DataLoop
       /\ declared' # declared
             => /\ CreateDataThread
                /\ inputqueue = <<>>
                /\ declared' = {m \in Range(modules) : Selected(m)}
       /\ (\E w \in Workers : ProcGet(w) \/ ProcPrepare(w) \/ ProcRun(w) \/ ProcFeed(w))
             => ~DocumentChanged]_vars

\* the producer declared the set of the one selected module and the consumer
\* added a correction to the tree
C19_Witness ==
    /\ module_ids = {"A"}
    /\ declared = {"A"}
    /\ foliadoc # {}

\* C20: once the run command has loaded the modules, a module without servers, whose
\* configuration does not say local: false, is local, and no worker takes the
\* remote branch for one of its payloads.
C20_NoServersIsLocal ==
    (lastcmd # <<>> /\ lastcmd[1] = "run"
                    /\ pcCorrector \notin {"construct", "failed", "main"})
        => \A m \in Range(modules) :
              (servers[m] = <<>> /\ Parsed.byid[m].local # "false")
                 => /\ local[m]
                    /\ \A u \in Elements :
                          /\ <<"No servers started", m, u>> \notin log
                          /\ <<"Unable to connect", m, u>> \notin log

(***************************************************************************)
(* Properties of a run: the override, the callbacks, the barrier.          *)
(***************************************************************************)
\* C21: in a run started with --local every module is local once the modules are
\* loaded, whether one of its servers answered the probe or none, and no worker
\* takes the remote branch: none asks for a server or opens a connection.
C21_LocalOverride ==
    (lastcmd = <<"run", "--local">> /\ pcCorrector \notin {"construct", "failed", "main"})
        => /\ \A m \in Range(modules) : local[m]
           /\ \A w \in Workers : attempts[w] = <<>> /\ clients[w] = {}
           /\ \A m \in Range(modules), u \in Elements :
                 /\ <<"No servers started", m, u>> \notin log
                 /\ <<"Unable to connect", m, u>> \notin log

\* C22: the step that calls init calls it exactly once for every selected module of
\* the registry, before any payload is enqueued and before any worker has started,
\* and leaves the correction set of each of them declared.
C22_InitOnce ==
    [][initcalls' # initcalls
          => /\ inputqueue = <<>>
             /\ \A w \in Workers : pcProc[w] = "new"
             /\ \A m \in Range(modules) :
                   /\ initcalls'[m] = IF Selected(m) THEN 1 ELSE 0
                   /\ Selected(m) => m \in declared']_vars

\* C23: finish is called exactly once for every selected module, in a step the
\* consumer takes after it has dequeued the end-of-output sentinel and before the
\* document is written; the document is written once, after the finish calls.
C23_FinishOnce ==
    [][/\ finishcalls' # finishcalls
             => /\ pcData = "finish"
                /\ written = 0
                /\ \A m \in Range(modules) :
                      finishcalls'[m] = IF Selected(m) THEN 1 ELSE 0
       /\ written' # written
             => /\ written' = 1
                /\ pcData = "save"
                /\ \A m \in Range(modules) : Selected(m) => finishcalls[m] >= 1]_vars

(***************************************************************************)
(* Properties of the query strings.                                        *)
(***************************************************************************)
\* the quoted literal of the suggested text opens at the first quote of a query; it
\* is read the way the escape is meant: a quote that follows a backslash belongs to
\* the text, the first other quote closes the literal, and \" stands for "
LiteralOpen(q) ==
    CHOOSE i \in 1..Len(q) : q[i] = Quote /\ \A j \in 1..(i - 1) : q[j] # Quote

Unescaped(q, i) == q[i] = Quote /\ q[i - 1] # Backslash

Closes(q) == \E i \in (LiteralOpen(q) + 1)..Len(q) : Unescaped(q, i)

LiteralClose(q) ==
    CHOOSE i \in (LiteralOpen(q) + 1)..Len(q) :
        Unescaped(q, i) /\ \A j \in (LiteralOpen(q) + 1)..(i - 1) : ~Unescaped(q, j)

unescape(t) ==
    LET RECURSIVE U(_)
        U(i) == IF i > Len(t) THEN <<>>
                ELSE IF t[i] = Backslash /\ i < Len(t) /\ t[i + 1] = Quote
                     THEN <<Quote>> \o U(i + 2)
                     ELSE <<t[i]>> \o U(i + 1)
    IN U(1)

\* C25: in every query built for a suggested text, the literal that holds the text
\* ends at the quote the method closes it with, and unescapes to the text.
C25_LiteralRoundTrip ==
    query # <<>>
        => /\ Closes(query)
           /\ LiteralClose(query) = Len(query) - 1
           /\ unescape(SubSeq(query, LiteralOpen(query) + 1, LiteralClose(query) - 1)) = suggestion

\* C26: a get that times out on an empty queue is a graceful stop: the worker stops
\* and logs no error; the consumer leaves its loop for the finish calls (after
\* which it writes the document) and logs no error.
C26_TimeoutIsStop ==
    [][/\ \A w \in Workers :
            (pcProc[w] = "get" /\ inputqueue = <<>> /\ pcProc'[w] # "get")
                => /\ pcProc'[w] = "stopped"
                   /\ \A e \in log' \ log : e[1] # "traceback"
       /\ (pcData = "loop" /\ outputqueue = <<>> /\ pcData' # "loop")
                => /\ pcData' = "finish"
                   /\ \A e \in log' \ log : e[1] # "traceback"]_vars

\* C27: a worker in prepare() for a module whose dependencies have each had a result
\* applied by the consumer leaves the barrier only to run the module.
C27_BarrierOpens ==
    [][\A w \in Workers :
          (/\ pcProc[w] = "prepare"
           /\ depends[held[w].module_id] # {}
           /\ depends[held[w].module_id] \subseteq processed
           /\ pcProc'[w] # "prepare")
              => pcProc'[w] = "run"]_vars

\* C28: when the controller puts the end-of-stream sentinel on the output queue,
\* every worker has left its loop: none holds an input item, is in the barrier or
\* runs a module, so each has made the last put of its results.
C28_SentinelAfterWorkers ==
    [][(pcCorrector = "join" /\ pcCorrector' = "joindata")
          => \A w \in Processors : pcProc[w] = "stopped" /\ held[w] = NoItem]_vars

\* the sentinel is put after a worker has run payloads and put their results
C28_Witness ==
    /\ pcCorrector = "joindata"
    /\ \E w \in Processors, k \in DOMAIN putcount :
          /\ putcount[k] > 0
          /\ feeder[w] # <<>>

\* C29: in a dispatch, local or remote, module.run is called with the payload of
\* the input item, and a record that is put carries the item's module id, unit id
\* and payload with the output of that call.
C29_SameRecord ==
    [][\A w \in Workers :
          (pcProc[w] = "run" /\ pcProc'[w] # "run")
              => /\ ranwith'[w] \in {NoArgument, held[w].inputdata}
                 /\ feeder'[w] # feeder[w]
                       => feeder'[w] = Append(feeder[w],
                             Result(held[w], runs[<<held[w].module_id, held[w].unit_id>>]))]_vars

\* C30: for every record other than the sentinel that the consumer takes from the
\* output queue, processoutput is called for the record: the document holds the
\* corrections of the queries it returns, and an exception it raises is logged.
C30_EveryRecordProcessed ==
    [][(/\ pcData = "loop" /\ outputqueue # <<>>
        /\ outputqueue' = Tail(outputqueue)
        /\ Head(outputqueue) # EndOfOutput)
          => LET m == Head(outputqueue).module_id
                 u == Head(outputqueue).unit_id
                 po == outputs[<<m, u>>]
             IN /\ po.kind = "raise" => <<"Exception processing output", m, u>> \in log'
                /\ po.kind # "raise"
                      => /\ ApplyQueries(m, u, po.queries) \subseteq foliadoc'
                         /\ m \in processed']_vars

(***************************************************************************)
(* Properties of the gate, the iteration, the clients and the servers.     *)
(***************************************************************************)
\* the controller has passed waitforprocessors.release()
Released == pcCorrector \notin {"construct", "failed", "main", "create", "startdata",
                                "startthreads", "release"}

\* C31: a worker takes an item from the input queue only after the producer has
\* filled the queue and the gate has been released, and a result is put on the
\* output queue only when the consumer is past its wait for the gate.
C31_GateHoldsWorkers ==
    [][/\ Len(inputqueue') < Len(inputqueue)
            => /\ <<"Input ready", NoModule, NoUnit>> \in log
               /\ Released
       /\ (\E w \in Workers : feeder'[w] # feeder[w] /\ Len(feeder'[w]) > Len(feeder[w]))
            => pcData \notin {"new", "wait"}]_vars

\* every dependency of a registered module is registered, and no module depends on
\* itself through other modules
Solvable(reg, deps) ==
    /\ \A m \in Range(reg) : deps[m] \subseteq Range(reg)
    /\ ~Cyclic(reg, deps)

\* the modules yielded before position i of an iteration
YieldedBefore(out, i) == {out[j] : j \in 1..(i - 1)}

\* C32: for the registry of a configuration file, the iteration over a solvable
\* depends relation ends without error, yields every module and yields each module
\* after all of its dependencies; over a relation with a cycle or with a dependency
\* that is not configured it raises the unsolvable-dependency error.
C32_IterationOrder ==
    (pcCorrector \in {"main", "failed"} /\ Parsed.error = "none")
        => LET reg == Parsed.modules
               r == Iterate(reg, ParsedDepends)
           IN IF Solvable(reg, ParsedDepends)
              THEN /\ ~r.raised
                   /\ pcCorrector = "main"
                   /\ Range(r.out) = Range(reg)
                   /\ \A i \in 1..Len(r.out) :
                         ParsedDepends[r.out[i]] \subseteq YieldedBefore(r.out, i)
              ELSE /\ r.raised
                   /\ pcCorrector = "failed"
                   /\ <<"unsolvable dependencies", NoModule, NoUnit>> \in log

\* the chain A on B on C, declared in the order A, B, C, was iterated in three passes
C32_Witness ==
    /\ pcCorrector = "main"
    /\ Parsed.modules = <<"A", "B", "C">>
    /\ ParsedDepends = [m \in ModuleIds |-> IF m = "A" THEN {"B"}
                                            ELSE IF m = "B" THEN {"C"} ELSE {}]
    /\ Iterate(modules, depends).out[1] = "C"

\* a configuration whose module A depends on the unconfigured C was rejected
C32_WitnessMissing ==
    /\ pcCorrector = "failed"
    /\ Parsed.modules = <<"A", "B">>
    /\ "C" \in ParsedDepends["A"]

\* C33: one iteration over the registry of a constructed Corrector yields every
\* registered module exactly once.
C33_EachModuleOnce ==
    pcCorrector = "main"
        => \A m \in Range(modules) : Count(Iterate(modules, depends).out, m) = 1

\* C34: after a remote dispatch the worker's client map has no entry for a server
\* whose attempt failed, has the entry of the server that served the call, holds
\* every other entry it held before, and the worker goes on to its next item.
C34_ClientMap ==
    [][\A w \in Workers :
          LET m == held[w].module_id
              k == <<m, held[w].unit_id>>
              tried == Range(attempts'[w])
              failed == {i \in tried : behaviour[m][i] # "answers" \/ runs[k] = "raise"}
          IN (pcProc[w] = "run" /\ Remote(m) /\ pcProc'[w] # "run")
             => /\ pcProc'[w] = "get"
                /\ \A i \in failed : <<m, i>> \notin clients'[w]
                /\ \A i \in tried \ failed : <<m, i>> \in clients'[w]
                /\ \A c \in clients[w] : (c[1] # m \/ c[2] \notin tried) => c \in clients'[w]
                /\ clients'[w] \subseteq clients[w] \cup {<<m, i>> : i \in tried}]_vars

\* a worker that holds the client of a server that served it has served a second
\* item through that server after another server failed
C34_Witness ==
    \E w \in Workers :
        /\ Len(attempts[w]) >= 2
        /\ behaviour["A"][attempts[w][1]] # "answers"
        /\ clients[w] = {<<"A", attempts[w][Len(attempts[w])]>>}
        /\ \A u \in Words : putcount[<<"A", u>>] = 1

\* C35: for a remote module with two or more servers that all answer, a dispatch by
\* a worker uses one server, and the worker's next dispatch of the module uses the
\* server that follows it in the server list, the first following the last.
C35_Rotation ==
    [][\A w \in Workers :
          LET m == held[w].module_id
              n == Len(servers[m])
          IN ( /\ pcProc[w] = "run" /\ pcProc'[w] # "run"
               /\ Remote(m) /\ n >= 2 /\ Answering(m) = 1..n
               /\ \A u \in Elements : runs[<<m, u>>] # "raise" )
             => /\ Len(attempts'[w]) = 1
                /\ attempts'[w][1] \in 1..n
                /\ seqnr[w][m] = -1 => attempts[w] = <<>>
                /\ seqnr[w][m] # -1
                      => /\ Len(attempts[w]) = 1
                         /\ attempts'[w][1] = (attempts[w][1] % n) + 1]_vars

\* a worker has dispatched twice to two servers that answer and has used both
C35_Witness ==
    \E w \in Workers :
        /\ Answering("A") = {1, 2}
        /\ clients[w] = {<<"A", 1>>, <<"A", 2>>}
        /\ Len(attempts[w]) = 1
        /\ \A u \in Words : putcount[<<"A", u>>] = 1

\* the servers whose PID file, as startservers names it, is in the run directory
\* for a registered module and whose load probe succeeds
Probed ==
    {t \in Range(modules) \X Hosts \X Ports :
        /\ \E f \in rundir : f.name = pidfilename(t[1], t[2], t[3])
        /\ Answers(t[2], t[3])}

\* C36: when a command's findservers returns, the servers it reports are exactly
\* those of the PID files of registered modules whose probe succeeded in this call,
\* whatever an earlier call reported and whatever other files the directory holds.
C36_FoundIsProbed ==
    [][(lastcmd' # lastcmd /\ lastcmd'[1] \in {"listservers", "stopservers", "run"})
          => found' = Probed]_vars

\* listservers reported the server started for A on the second port and skipped
\* the file of a dead server of A on the first
C36_Witness ==
    /\ lastcmd = <<"listservers", "startservers">>
    /\ Len(modules) = 1
    /\ found = {<<"A", FQDN, PortMin + 1>>}
    /\ \E f \in rundir : f.name = pidfilename("A", FQDN, PortMin) /\ f.pid = NoPid

\* the PID files a command has added for module m, and the children it has spawned
NewFiles(m) ==
    {f \in rundir' \ rundir :
        IsPidFile(f.name) /\ m \in Lookup(modules, parsepidfile(f.name).module)}
NewChildren(m) == {s \in spawned' : s.module = m}

\* C37: startservers spawns one server and writes one PID file, named for this host
\* and holding the child's process id, for every registered module that is not
\* local, and spawns nothing and writes no file for any other module.
C37_OneServerPerModule ==
    [][Ran("startservers")
          => \A m \in ModuleIds :
                IF m \in Range(modules) /\ ~local[m]
                THEN /\ Cardinality(NewChildren(m)) = 1
                     /\ NewFiles(m) = {[name |-> pidfilename(m, FQDN, s.port), pid |-> s.pid] :
                                         s \in NewChildren(m)}
                ELSE NewChildren(m) = {} /\ NewFiles(m) = {}]_vars

\* C38: on the connection of a worker to a server that answers, the request of a
\* dispatch gets its response, also when the module's run raises for it: the
\* dispatch needs one attempt and the worker keeps the connection.
C38_OneResponsePerRequest ==
    [][\A w \in Workers :
          LET m == held[w].module_id
          IN ( /\ pcProc[w] = "run" /\ pcProc'[w] # "run"
               /\ Remote(m) /\ servers[m] # <<>>
               /\ Answering(m) = 1..Len(servers[m]) )
             => /\ Len(attempts'[w]) = 1
                /\ <<m, attempts'[w][1]>> \in clients'[w]]_vars

\* an earlier request of module m made run raise on a server: the dispatch of unit u
\* failed although no server refused the connection
RaisedOnServer(m, u) ==
    /\ runs[<<m, u>>] = "raise"
    /\ <<"Unable to connect", m, u>> \in log
    /\ <<"refused connection", m, u>> \notin log
    /\ servers[m] # <<>>

C40_OneTimingPerDispatch ==
    [][\A w \in Workers :
          (pcProc[w] = "run" /\ pcProc'[w] # "run")
              => timequeue' = [timequeue EXCEPT ![held[w].module_id] = @ + 1]]_vars

====
